---- MODULE Spec2Model ----
(***************************************************************************)
(* A model of appdwn.py: the Flask endpoint POST /download_mp3, which      *)
(* hands a video URL to yt-dlp, looks the produced file up in the shared   *)
(* directory temp_downloads by the prefix of a fresh uuid, and sends it    *)
(* back under a name derived from the video's title.                       *)
(*                                                                         *)
(* Every request is served by a thread of its own (the Flask development   *)
(* server is threaded), so the handler of one request is split where it    *)
(* blocks on, or reads, what other requests share: the call of             *)
(* extract_info and the listing of temp_downloads.                         *)
(*                                                                         *)
(* Python strings that the code inspects character by character (titles,   *)
(* file names, identifiers) are sequences of one-character strings.        *)
(***************************************************************************)
EXTENDS Integers, Sequences, FiniteSets

VARIABLES
    pc,               \* where each request's handler stands
    body,             \* the request's body, as sent
    unique_filename,  \* line 38: the generated identifier ('' before that)
    info,             \* line 55: what extract_info returned
    final_filename,   \* line 57: the download name ('' before that)
    exc,              \* the exception travelling to the except clauses
    response,         \* the responses the handler has returned, in order
    files,            \* the entries of temp_downloads
    calls,            \* how often extract_info was invoked for the request
    lookups,          \* how often temp_downloads was listed for the request
    listing,          \* line 61: what os.listdir returned to the request
    written           \* the entries extract_info wrote for the request

vars == <<pc, body, unique_filename, info, final_filename, exc, response,
          files, calls, lookups, listing, written>>

----------------------------------------------------------------------------
(* Bounds *)

NReq == 2
MaxTitleLen == 3

Requests == 1..NReq

----------------------------------------------------------------------------
(* Strings *)

Mp3Ext == <<".", "m", "p", "3">>
NoString == <<>>

\* str.startswith
StartsWithFirstChar(f, p) ==
    Len(p) = 0 \/ (Len(f) > 0 /\ f[1] = p[1])

StartsWith(f, p) ==
    /\ Len(p) <= Len(f)
    /\ \A i \in 1..Len(p) : f[i] = p[i]

\* str.replace for a one-character pattern
RECURSIVE Replace(_, _, _)
Replace(s, old, new) ==
    IF s = <<>> THEN <<>>
    ELSE <<IF Head(s) = old THEN new ELSE Head(s)>> \o Replace(Tail(s), old, new)

SanitizeSpacesOnly(title) == Replace(title, " ", "_")

\* line 56: .replace(' ', '_').replace('/', '_')
Sanitize(title) == Replace(Replace(title, " ", "_"), "/", "_")

----------------------------------------------------------------------------
(* The request body and its validation *)

JNull == <<"null">>
JStr(s) == <<"str", s>>
Urls == {JNull, JStr(""), JStr("https://youtu.be/v")}

\* What a client can post: no JSON content type, a body that is not JSON,
\* the JSON values null and [], and JSON objects with or without "url".
Bodies ==
    {[kind |-> k, url |-> JNull, has_url |-> FALSE] :
        k \in {"no_json", "malformed", "null", "array"}}
    \cup {[kind |-> "object", url |-> JNull, has_url |-> FALSE]}
    \cup {[kind |-> "object", url |-> u, has_url |-> TRUE] : u \in Urls}

NoBody == [kind |-> "none", url |-> JNull, has_url |-> FALSE]

NoException == [cls |-> "none", msg |-> ""]

\* line 31: request.get_json(). Without a JSON content type Flask answers
\* None or raises 415, depending on its version; a body that does not parse
\* raises 400.
get_json(b) ==
    CASE b.kind = "no_json" ->
            {[raised |-> NoException, data |-> "None"],
             [raised |-> [cls |-> "UnsupportedMediaType",
                          msg |-> "415 Unsupported Media Type"],
              data |-> "None"]}
      [] b.kind = "malformed" ->
            {[raised |-> [cls |-> "BadRequest", msg |-> "400 Bad Request"],
              data |-> "None"]}
      [] b.kind = "null" -> {[raised |-> NoException, data |-> "None"]}
      [] b.kind = "array" -> {[raised |-> NoException, data |-> "list"]}
      [] OTHER -> {[raised |-> NoException, data |-> "dict"]}

\* line 32: data.get('url')
data_get_url(b, data) ==
    IF data = "dict"
    THEN [raised |-> NoException,
          value |-> IF b.has_url THEN b.url ELSE JNull]
    ELSE [raised |-> [cls |-> "AttributeError",
                      msg |-> IF data = "list"
                              THEN "'list' object has no attribute 'get'"
                              ELSE "'NoneType' object has no attribute 'get'"],
          value |-> JNull]

TruthyAlways(v) == TRUE

\* line 34: the truth value of video_url
Truthy(v) == v # JNull /\ v # JStr("")

----------------------------------------------------------------------------
(* Responses *)

NoUrlMsg == "No URL provided."
NotFoundMsg == "Failed to process the video."
DownloadErrorMsg ==
    "Could not process the YouTube video. It might be private, geoblocked, or invalid."
\* line 75: f'An unexpected server error occurred: {str(e)}'
GenericMsg(e) == "An unexpected server error occurred: " \o e.msg

JsonError(msg, status) == [status |-> status, error |-> msg]
SendFile(f, name) == [status |-> 200, file |-> f, download_name |-> name]

\* The classes the model raises; each is a subclass of Exception.
ExceptionClasses ==
    {"DownloadError", "AttributeError", "UnsupportedMediaType", "BadRequest",
     "OSError"}

ExceptHandlerGenericFirst(e) ==
    IF e.cls \in ExceptionClasses THEN <<JsonError(GenericMsg(e), 500)>>
    ELSE <<>>

ExceptHandlerDownloadErrorOnly(e) ==
    IF e.cls = "DownloadError" THEN <<JsonError(DownloadErrorMsg, 400)>>
    ELSE <<>>

\* lines 70-75: the except clauses, tried in order. The result is what the
\* handler returns: one response, or none when no clause catches e and the
\* exception leaves download_mp3.
ExceptHandler(e) ==
    IF e.cls = "DownloadError" THEN <<JsonError(DownloadErrorMsg, 400)>>
    ELSE IF e.cls \in ExceptionClasses THEN <<JsonError(GenericMsg(e), 500)>>
    ELSE <<>>

----------------------------------------------------------------------------
(* The external tool and the temp directory *)

\* uuid.uuid4() as a string: identifiers of one fixed length.
Ids == {<<"0", "0">>, <<"0", "1">>, <<"1", "0">>}

\* What yt-dlp appends to outtmpl: nothing (the downloaded stream) or the
\* extension of the extracted audio.
Exts == {<<>>, Mp3Ext}

\* An entry left in temp_downloads by an earlier run of the server.
StaleFile == <<"1", "1">> \o Mp3Ext

\* What extract_info raises: its own DownloadError, or anything else.
ToolErrors ==
    {[cls |-> "DownloadError", msg |-> "ERROR: Video unavailable"],
     [cls |-> "OSError", msg |-> "No space left on device"]}

NoInfo == [none |-> TRUE]
Placeholder == <<"a", "u", "d", "i", "o">>

\* The metadata extract_info returns: with a title, or without one.
Infos ==
    {[id |-> "v"]}
    \cup {[id |-> "v", title |-> t] : t \in {<<"a", " ", "/", "b">>}}

TitleChars == {" ", "/", "_", "a", "."}
RECURSIVE TitlesOfLen(_)
TitlesOfLen(n) ==
    IF n = 0 THEN {<<>>}
    ELSE {<<c>> \o t : c \in TitleChars, t \in TitlesOfLen(n - 1)}
AllTitles == UNION {TitlesOfLen(n) : n \in 0..MaxTitleLen}
AllInfos == {[id |-> "v"]} \cup {[id |-> "v", title |-> t] : t \in AllTitles}

DeriveFilenameStrNone(i) ==
    Sanitize(IF "title" \in DOMAIN i THEN i.title ELSE <<"N", "o", "n", "e">>)
        \o Mp3Ext

\* lines 56-57: info.get('title', 'audio'), sanitized, with '.mp3'
DeriveFilename(i) ==
    Sanitize(IF "title" \in DOMAIN i THEN i.title ELSE Placeholder) \o Mp3Ext

ResolveUnchecked(entries, prefix, name) ==
    LET actual_files == {f \in entries : StartsWith(f, prefix)}
    IN  IF actual_files = {}
        THEN {JsonError(GenericMsg([cls |-> "IndexError",
                                    msg |-> "list index out of range"]), 500)}
        ELSE {SendFile(f, name) : f \in actual_files}

\* lines 61-68: the entries that start with the identifier; none is a 500,
\* otherwise the first of os.listdir's order, which is any of them.
Resolve(entries, prefix, name) ==
    LET actual_files == {f \in entries : StartsWith(f, prefix)}
    IN  IF actual_files = {}
        THEN {JsonError(NotFoundMsg, 500)}
        ELSE {SendFile(f, name) : f \in actual_files}

DirAfterServeDeleting(entries, resp) ==
    IF "file" \in DOMAIN resp THEN entries \ {resp.file} ELSE entries

\* line 68: send_file leaves temp_downloads as it is (no os.remove follows)
DirAfterServe(entries, resp) == entries

----------------------------------------------------------------------------
(* The handler *)

Init ==
    /\ pc = [r \in Requests |-> "idle"]
    /\ body = [r \in Requests |-> NoBody]
    /\ unique_filename = [r \in Requests |-> NoString]
    /\ info = [r \in Requests |-> NoInfo]
    /\ final_filename = [r \in Requests |-> NoString]
    /\ exc = [r \in Requests |-> NoException]
    /\ response = [r \in Requests |-> <<>>]
    /\ files = {StaleFile}
    /\ calls = [r \in Requests |-> 0]
    /\ lookups = [r \in Requests |-> 0]
    /\ listing = [r \in Requests |-> {}]
    /\ written = [r \in Requests |-> {}]

\* uuid4 does not repeat an identifier.
FreshIds == Ids \ {unique_filename[q] : q \in Requests}

\* lines 31-32 raise: the exception travels to the except clauses.
ReceiveRaise(r, b) ==
    /\ pc[r] = "idle"
    /\ \E g \in get_json(b) :
         LET e == IF g.raised # NoException THEN g.raised
                  ELSE data_get_url(b, g.data).raised
         IN  /\ e # NoException
             /\ exc' = [exc EXCEPT ![r] = e]
    /\ body' = [body EXCEPT ![r] = b]
    /\ pc' = [pc EXCEPT ![r] = "except"]
    /\ UNCHANGED <<unique_filename, info, final_filename, response, files,
                   calls, lookups, listing, written>>

\* lines 31-35: the body is read, and video_url is missing or empty.
ReceiveNoUrl(r, b) ==
    /\ pc[r] = "idle"
    /\ \E g \in get_json(b) :
         /\ g.raised = NoException
         /\ data_get_url(b, g.data).raised = NoException
         /\ ~Truthy(data_get_url(b, g.data).value)
    /\ body' = [body EXCEPT ![r] = b]
    /\ response' = [response EXCEPT ![r] = Append(@, JsonError(NoUrlMsg, 400))]
    /\ pc' = [pc EXCEPT ![r] = "done"]
    /\ UNCHANGED <<unique_filename, info, final_filename, exc, files, calls,
                   lookups, listing, written>>

\* lines 31-55: the url passes the check, the identifier is generated and
\* extract_info is entered.
ReceiveAndCall(r, b) ==
    /\ pc[r] = "idle"
    /\ \E g \in get_json(b) :
         /\ g.raised = NoException
         /\ data_get_url(b, g.data).raised = NoException
         /\ Truthy(data_get_url(b, g.data).value)
    /\ \E u \in FreshIds : unique_filename' = [unique_filename EXCEPT ![r] = u]
    /\ body' = [body EXCEPT ![r] = b]
    /\ calls' = [calls EXCEPT ![r] = @ + 1]
    /\ pc' = [pc EXCEPT ![r] = "extract_info"]
    /\ UNCHANGED <<info, final_filename, exc, response, files, lookups, listing,
                   written>>

\* line 55, inside yt-dlp: an entry named outtmpl plus an extension appears.
\* yt-dlp is outside this program; only the entries it leaves behind are
\* modelled, any number of them, before it returns or raises.
ToolWrite(r, x) ==
    /\ pc[r] = "extract_info"
    /\ unique_filename[r] \o x \notin files
    /\ files' = files \cup {unique_filename[r] \o x}
    /\ written' = [written EXCEPT ![r] = @ \cup {unique_filename[r] \o x}]
    /\ UNCHANGED <<pc, body, unique_filename, info, final_filename, exc,
                   response, calls, lookups, listing>>

\* lines 55-57: extract_info returns its metadata; the name is derived.
ToolReturn(r, i) ==
    /\ pc[r] = "extract_info"
    /\ info' = [info EXCEPT ![r] = i]
    /\ final_filename' = [final_filename EXCEPT ![r] = DeriveFilename(i)]
    /\ pc' = [pc EXCEPT ![r] = "listdir"]
    /\ UNCHANGED <<body, unique_filename, exc, response, files, calls, lookups,
                   listing, written>>

\* line 55: extract_info raises.
ToolRaise(r, e) ==
    /\ pc[r] = "extract_info"
    /\ exc' = [exc EXCEPT ![r] = e]
    /\ pc' = [pc EXCEPT ![r] = "except"]
    /\ UNCHANGED <<body, unique_filename, info, final_filename, response, files,
                   calls, lookups, listing, written>>

\* lines 61-68: the directory is listed and the answer is returned.
Lookup(r) ==
    /\ pc[r] = "listdir"
    /\ lookups' = [lookups EXCEPT ![r] = @ + 1]
    /\ listing' = [listing EXCEPT ![r] = files]
    /\ \E resp \in Resolve(files, unique_filename[r], final_filename[r]) :
         /\ response' = [response EXCEPT ![r] = Append(@, resp)]
         /\ files' = DirAfterServe(files, resp)
    /\ pc' = [pc EXCEPT ![r] = "done"]
    /\ UNCHANGED <<body, unique_filename, info, final_filename, exc, calls,
                   written>>

\* lines 70-75: the except clauses answer, or the exception leaves the handler.
Except(r) ==
    /\ pc[r] = "except"
    /\ response' = [response EXCEPT ![r] = @ \o ExceptHandler(exc[r])]
    /\ pc' = [pc EXCEPT ![r] = IF ExceptHandler(exc[r]) = <<>>
                                THEN "escaped" ELSE "done"]
    /\ UNCHANGED <<body, unique_filename, info, final_filename, exc, files,
                   calls, lookups, listing, written>>

Next ==
    \/ \E r \in Requests, b \in Bodies : ReceiveRaise(r, b)
    \/ \E r \in Requests, b \in Bodies : ReceiveNoUrl(r, b)
    \/ \E r \in Requests, b \in Bodies : ReceiveAndCall(r, b)
    \/ \E r \in Requests, x \in Exts : ToolWrite(r, x)
    \/ \E r \in Requests, i \in Infos : ToolReturn(r, i)
    \/ \E r \in Requests, e \in ToolErrors : ToolRaise(r, e)
    \/ \E r \in Requests : Lookup(r)
    \/ \E r \in Requests : Except(r)

Spec == Init /\ [][Next]_vars

----------------------------------------------------------------------------
(* Title derivation on its own: one request stands in extract_info, which  *)
(* returns any metadata whose title has at most MaxTitleLen characters.    *)

InitTitle ==
    /\ pc = [r \in Requests |-> IF r = 1 THEN "extract_info" ELSE "idle"]
    /\ body = [r \in Requests |->
                 IF r = 1
                 THEN [kind |-> "object", url |-> JStr("https://youtu.be/v"),
                       has_url |-> TRUE]
                 ELSE NoBody]
    /\ unique_filename = [r \in Requests |->
                            IF r = 1 THEN <<"0", "0">> ELSE NoString]
    /\ info = [r \in Requests |-> NoInfo]
    /\ final_filename = [r \in Requests |-> NoString]
    /\ exc = [r \in Requests |-> NoException]
    /\ response = [r \in Requests |-> <<>>]
    /\ files = {StaleFile}
    /\ calls = [r \in Requests |-> IF r = 1 THEN 1 ELSE 0]
    /\ lookups = [r \in Requests |-> 0]
    /\ listing = [r \in Requests |-> {}]
    /\ written = [r \in Requests |-> {}]

NextTitle == \E i \in AllInfos : ToolReturn(1, i)

SpecTitle == InitTitle /\ [][NextTitle]_vars

----------------------------------------------------------------------------
(* The claims *)

Finished(r) == pc[r] \in {"done", "escaped"}

\* The request's url is empty or absent: no JSON object at all, an object
\* without "url", or a "url" that is null or ''.
UrlMissing(b) ==
    /\ b # NoBody
    /\ \/ b.kind # "object"
       \/ ~b.has_url
       \/ b.url \in {JNull, JStr("")}

\* The title with each ' ' and each '/' replaced by '_'.
Underscored(t) ==
    [k \in 1..Len(t) |-> IF t[k] \in {" ", "/"} THEN "_" ELSE t[k]]

EndsWithMp3(n) ==
    Len(n) >= Len(Mp3Ext) /\ SubSeq(n, Len(n) - Len(Mp3Ext) + 1, Len(n)) = Mp3Ext

HasPrefix(f, p) == Len(f) >= Len(p) /\ SubSeq(f, 1, Len(p)) = p

\* C1: a request whose url is empty or absent is answered 400 with an error
\* body, extract_info is not invoked for it and it adds nothing to
\* temp_downloads.
C1_MissingUrlIs400 ==
    \A r \in Requests :
        (Finished(r) /\ UrlMissing(body[r])) =>
            /\ Len(response[r]) = 1
            /\ response[r][1].status = 400
            /\ "error" \in DOMAIN response[r][1]
            /\ calls[r] = 0
            /\ written[r] = {}

C3_OwnFileOnly ==
    \A r \in Requests :
        \A k \in 1..Len(response[r]) :
            "file" \in DOMAIN response[r][k] =>
                /\ HasPrefix(response[r][k].file, unique_filename[r])
                /\ response[r][k].file \in written[r]
                /\ \A q \in Requests \ {r} :
                       /\ response[r][k].file \notin written[q]
                       /\ unique_filename[q] # unique_filename[r]

C3_Witness ==
    \E r \in Requests, q \in Requests :
        /\ q # r
        /\ pc[r] = "done"
        /\ Len(response[r]) = 1
        /\ "file" \in DOMAIN response[r][1]
        /\ pc[q] = "extract_info"
        /\ written[q] # {}
        /\ written[q] \subseteq listing[r]
        /\ StaleFile \in listing[r]

\* C4: when extract_info raised DownloadError the request is answered 400,
\* with an error message that is not the generic one for any exception; it
\* is never answered 500 or 200.
C4_DownloadErrorIs400 ==
    \A r \in Requests :
        exc[r].cls = "DownloadError" =>
            /\ pc[r] \in {"except", "done"}
            /\ pc[r] = "except" => response[r] = <<>>
            /\ pc[r] = "done" =>
                /\ Len(response[r]) = 1
                /\ response[r][1].status = 400
                /\ "error" \in DOMAIN response[r][1]
                /\ response[r][1].error # GenericMsg(exc[r])
                /\ \A e \in ToolErrors : response[r][1].error # GenericMsg(e)

C4_Witness ==
    \E r \in Requests :
        /\ exc[r].cls = "DownloadError"
        /\ pc[r] = "done"
        /\ written[r] # {}

\* C5: when extract_info returned and the listing holds no entry that starts
\* with the request's identifier, the answer is 500 with "Failed to process
\* the video." and no file.
C5_NoEntryIs500 ==
    \A r \in Requests :
        (/\ pc[r] = "done"
         /\ info[r] # NoInfo
         /\ lookups[r] >= 1
         /\ \A f \in listing[r] : ~HasPrefix(f, unique_filename[r])) =>
            response[r] = <<[status |-> 500, error |-> NotFoundMsg]>>

C5_Witness ==
    \E r \in Requests :
        /\ pc[r] = "done"
        /\ info[r] # NoInfo
        /\ lookups[r] = 1
        /\ listing[r] # {}
        /\ \A f \in listing[r] : ~HasPrefix(f, unique_filename[r])

\* C6: a request never leaves the handler as an exception; it has no
\* response while it runs and exactly one when it has ended, with status 200,
\* 400 or 500 and, unless 200, an error body.
C6_OneStructuredResponse ==
    \A r \in Requests :
        /\ pc[r] # "escaped"
        /\ Len(response[r]) = (IF pc[r] = "done" THEN 1 ELSE 0)
        /\ \A k \in 1..Len(response[r]) :
            /\ response[r][k].status \in {200, 400, 500}
            /\ response[r][k].status # 200 => "error" \in DOMAIN response[r][k]
            /\ response[r][k].status = 200 => "file" \in DOMAIN response[r][k]

C6_Witness ==
    \E r \in Requests :
        /\ pc[r] = "done"
        /\ exc[r].cls \in {"AttributeError", "OSError", "UnsupportedMediaType",
                           "BadRequest"}
        /\ response[r][1].status = 500

\* C7: for every title, the derived download name has no ' ' and no '/',
\* ends with '.mp3', and is the title with each ' ' and each '/' replaced by
\* '_', followed by '.mp3'.
C7_SanitizedName ==
    \A r \in Requests :
        "title" \in DOMAIN info[r] =>
            /\ \A k \in 1..Len(final_filename[r]) :
                   final_filename[r][k] \notin {" ", "/"}
            /\ EndsWithMp3(final_filename[r])
            /\ final_filename[r] = Underscored(info[r].title) \o Mp3Ext

C7_Witness ==
    \E r \in Requests :
        /\ "title" \in DOMAIN info[r]
        /\ Len(info[r].title) = MaxTitleLen
        /\ {" ", "/"} \subseteq {info[r].title[k] : k \in 1..Len(info[r].title)}
        /\ final_filename[r] # NoString

\* C8: when extract_info returned metadata without a title, the download
\* name is audio.mp3 and the request goes on to the listing: it raises
\* nothing, and what it is answered comes from the lookup.
C8_PlaceholderTitle ==
    \A r \in Requests :
        (info[r] # NoInfo /\ "title" \notin DOMAIN info[r]) =>
            /\ final_filename[r] = <<"a", "u", "d", "i", "o", ".", "m", "p", "3">>
            /\ exc[r] = NoException
            /\ pc[r] \in {"listdir", "done"}
            /\ pc[r] = "done" =>
                /\ lookups[r] = 1
                /\ response[r][1].status = 200 =>
                       response[r][1].download_name = final_filename[r]

C8_Witness ==
    \E r \in Requests :
        /\ info[r] # NoInfo
        /\ "title" \notin DOMAIN info[r]
        /\ pc[r] = "done"
        /\ response[r][1].status = 200

C10_NoRetry ==
    [][\A r \in Requests :
         /\ calls'[r] <= 1
         /\ calls'[r] = 1 =>
              /\ body'[r].kind = "object"
              /\ body'[r].has_url
              /\ body'[r].url \notin {JNull, JStr("")}
              /\ unique_filename'[r] \in Ids
         /\ (pc[r] = "extract_info" /\ pc'[r] = "except") =>
              /\ calls'[r] = 1
              /\ lookups'[r] = 0
         /\ (pc[r] = "except" /\ pc'[r] # "except") =>
              /\ pc'[r] = "done"
              /\ Len(response'[r]) = 1
              /\ "error" \in DOMAIN response'[r][1]
              /\ calls'[r] = calls[r]
              /\ lookups'[r] = lookups[r]
              /\ lookups'[r] = 0]_vars

C10_Witness ==
    \E r \in Requests :
        /\ calls[r] = 1
        /\ exc[r] \in ToolErrors
        /\ pc[r] = "done"

====
